---- MODULE Spec2Model ----
(***************************************************************************)
(* Model of scripts/add_auxcodes.py: load_moqi (the mapping loader),       *)
(* process_chars (the line merger) and main (the batch driver).            *)
(*                                                                         *)
(* Text is a sequence of one-character strings.  Three specifications      *)
(* share the variables: SpecLoad runs load_moqi row by row, SpecMerge      *)
(* runs process_chars line by line and then runs it again on its own       *)
(* output, SpecMain runs main's batch loop over a small file system.       *)
(***************************************************************************)
EXTENDS Integers, Sequences, FiniteSets, TLC

VARIABLES
    table,        \* load_moqi: the lines the file iterator yields
    ln_idx,       \* load_moqi: index of the next row of the for loop
    mapping,      \* load_moqi: the dict being built
    load_pc,      \* load_moqi: "idle" | "loop" | "done"
    moqi_map,     \* process_chars: the mapping argument
    lines,        \* process_chars: read_text().splitlines(keepends=True)
    out_lines,    \* process_chars: out_lines
    changed,      \* process_chars: changed
    line_idx,     \* process_chars: index of the next line of the for loop
    pc,           \* process_chars: "idle" | "loop" | "done" | "again"
    again,        \* result of a second run over the first run's output
    args,         \* main: the parsed command line
    fs,           \* main: the regular files, path -> text
    dirs,         \* main: the directories that exist
    files_to_process, \* main: files_to_process
    fp_idx,       \* main: index of the next file of the batch loop
    orig,         \* main: orig
    result,       \* main: (out_lines, changed) of process_chars
    total_changed, \* main: total_changed
    main_pc,      \* main: position in main
    rc            \* main: "running", the return code or the exception raised

mergeVars == <<moqi_map, lines, out_lines, changed, line_idx, pc, again>>
loadVars == <<table, ln_idx, mapping, load_pc>>
mainVars == <<args, fs, dirs, files_to_process, fp_idx, orig, result,
              total_changed, main_pc, rc>>
vars == <<table, ln_idx, mapping, load_pc,
          moqi_map, lines, out_lines, changed, line_idx, pc, again,
          args, fs, dirs, files_to_process, fp_idx, orig, result,
          total_changed, main_pc, rc>>

(***************************************************************************)
(* Characters                                                              *)
(***************************************************************************)
TAB == "\t"
NL == "\n"
FF == "\f"
SEMI == ";"
HASH == "#"
SP == " "
DASH == "-"

\* str.strip() / str.rstrip() with no argument remove these
Whitespace == {SP, TAB, NL, FF}
\* str.splitlines() ends a line after each of these
LineBoundaries == {NL, FF}
\* ln.rstrip("\n\r"); the text layer never delivers "\r" (universal newlines)
NewlineChars == {NL}

(***************************************************************************)
(* Python string primitives                                                *)
(***************************************************************************)
FirstIndex(s, C) ==
    IF \E i \in 1..Len(s) : s[i] \in C
    THEN CHOOSE i \in 1..Len(s) : s[i] \in C /\ \A j \in 1..(i - 1) : s[j] \notin C
    ELSE 0

LastIndexNotIn(s, C) ==
    IF \E i \in 1..Len(s) : s[i] \notin C
    THEN CHOOSE i \in 1..Len(s) : s[i] \notin C /\ \A j \in (i + 1)..Len(s) : s[j] \in C
    ELSE 0

FirstIndexNotIn(s, C) ==
    IF \E i \in 1..Len(s) : s[i] \notin C
    THEN CHOOSE i \in 1..Len(s) : s[i] \notin C /\ \A j \in 1..(i - 1) : s[j] \in C
    ELSE 0

RStrip(s, C) == SubSeq(s, 1, LastIndexNotIn(s, C))

Strip(s) ==
    IF FirstIndexNotIn(s, Whitespace) = 0 THEN <<>>
    ELSE SubSeq(s, FirstIndexNotIn(s, Whitespace), LastIndexNotIn(s, Whitespace))

StartsWith(s, c) == Len(s) >= 1 /\ s[1] = c

EndsWith(s, c) == Len(s) >= 1 /\ s[Len(s)] = c

Contains(s, c) == \E i \in 1..Len(s) : s[i] = c

RECURSIVE Split(_, _)
Split(s, sep) ==
    LET k == FirstIndex(s, {sep})
    IN  IF k = 0 THEN <<s>>
        ELSE <<SubSeq(s, 1, k - 1)>> \o Split(SubSeq(s, k + 1, Len(s)), sep)

RECURSIVE Join(_, _)
Join(parts, sep) ==
    IF parts = <<>> THEN <<>>
    ELSE IF Len(parts) = 1 THEN parts[1]
    ELSE parts[1] \o <<sep>> \o Join(Tail(parts), sep)

RECURSIVE Concat(_)
Concat(ls) == IF ls = <<>> THEN <<>> ELSE ls[1] \o Concat(Tail(ls))

RECURSIVE SplitLines(_)
SplitLines(s) ==
    LET k == FirstIndex(s, LineBoundaries)
    IN  IF s = <<>> THEN <<>>
        ELSE IF k = 0 THEN <<s>>
        ELSE <<SubSeq(s, 1, k)>> \o SplitLines(SubSeq(s, k + 1, Len(s)))

(***************************************************************************)
(* load_moqi                                                               *)
(***************************************************************************)
EmptyMap == [k \in {} |-> <<>>]

\* mapping[ch] = aux
Insert(m, ch, aux) == [k \in (DOMAIN m) \cup {ch} |-> IF k = ch THEN aux ELSE m[k]]

\* the row conditions that make the loop body `continue`
RowSkipped(ln) ==
    LET s == RStrip(ln, NewlineChars)
    IN  \/ s = <<>>
        \/ StartsWith(s, HASH)
        \/ Len(Split(s, TAB)) < 2

RowKey(ln) == Split(RStrip(ln, NewlineChars), TAB)[1]

RowAux(ln) == Split(RStrip(ln, NewlineChars), TAB)[2]

\* the insertion guard that drops the first-wins test
LoadRowLastWins(m, ln) ==
    IF RowSkipped(ln) THEN m
    ELSE IF RowKey(ln) # <<>> /\ RowAux(ln) # <<>>
         THEN Insert(m, RowKey(ln), RowAux(ln))
         ELSE m

\* one iteration of the for loop
LoadRow(m, ln) ==
    IF RowSkipped(ln) THEN m
    ELSE IF RowKey(ln) # <<>> /\ RowAux(ln) # <<>> /\ RowKey(ln) \notin DOMAIN m
         THEN Insert(m, RowKey(ln), RowAux(ln))
         ELSE m

RECURSIVE LoadFrom(_, _)
LoadFrom(m, rows) == IF rows = <<>> THEN m ELSE LoadFrom(LoadRow(m, rows[1]), Tail(rows))

\* the whole function
load_moqi(rows) == LoadFrom(EmptyMap, rows)

(***************************************************************************)
(* process_chars                                                           *)
(***************************************************************************)
\* the structural tests without the blank-line test
StructuralNoBlank(line) ==
    \/ StartsWith(line, HASH)
    \/ Strip(line) = <<DASH, DASH, DASH>>

\* the first two tests of the loop body
Structural(line) ==
    \/ Strip(line) = <<>>
    \/ StartsWith(line, HASH)
    \/ Strip(line) = <<DASH, DASH, DASH>>

\* the rebuilt line with rest = parts[2] instead of the joined remainder
NewLineThirdFieldOnly(line, m) ==
    LET parts == Split(line, TAB)
        new_line == Join(<<parts[1], parts[2] \o <<SEMI>> \o m[parts[1]], parts[3]>>, TAB)
    IN  IF EndsWith(line, NL) /\ ~EndsWith(new_line, NL)
        THEN new_line \o <<NL>>
        ELSE new_line

\* the rebuilt line, with the line-ending fix-up
NewLine(line, m) ==
    LET parts == Split(line, TAB)
        ch == parts[1]
        pinyin == parts[2]
        rest == Join(SubSeq(parts, 3, Len(parts)), TAB)
        new_pinyin == pinyin \o <<SEMI>> \o m[ch]
        new_line == Join(<<ch, new_pinyin, rest>>, TAB)
    IN  IF EndsWith(line, NL) /\ ~EndsWith(new_line, NL)
        THEN new_line \o <<NL>>
        ELSE new_line

\* the rewriting test without the ";" guard
RewritesNoSemiTest(line, m) ==
    /\ ~Structural(line)
    /\ Len(Split(line, TAB)) >= 3
    /\ Split(line, TAB)[1] \in DOMAIN m
    /\ m[Split(line, TAB)[1]] # <<>>

\* whether the loop body takes the rewriting branch
Rewrites(line, m) ==
    /\ ~Structural(line)
    /\ Len(Split(line, TAB)) >= 3
    /\ Split(line, TAB)[1] \in DOMAIN m
    /\ m[Split(line, TAB)[1]] # <<>>
    /\ ~Contains(Split(line, TAB)[2], SEMI)

\* the loop body with the increment outside the rewriting branch
ProcessLineCountsEntries(line, m) ==
    IF Rewrites(line, m)
    THEN [line |-> NewLine(line, m), inc |-> 1]
    ELSE [line |-> line,
          inc |-> IF ~Structural(line) /\ Len(Split(line, TAB)) >= 3 THEN 1 ELSE 0]

\* one iteration of the for loop: the line appended and the increment of changed
ProcessLine(line, m) ==
    IF Rewrites(line, m)
    THEN [line |-> NewLine(line, m), inc |-> 1]
    ELSE [line |-> line, inc |-> 0]

\* an append that drops a line equal to the one before it
AppendOutDedup(out, r) ==
    IF out # <<>> /\ out[Len(out)] = r.line THEN out ELSE Append(out, r.line)

\* the loop body's effect on out_lines
AppendOut(out, r) == Append(out, r.line)

RECURSIVE ProcessFrom(_, _, _, _)
ProcessFrom(ls, m, out, n) ==
    IF ls = <<>> THEN [lines |-> out, changed |-> n]
    ELSE ProcessFrom(Tail(ls), m, AppendOut(out, ProcessLine(ls[1], m)),
                     n + ProcessLine(ls[1], m).inc)

\* the whole loop over a list of lines
ProcessLines(ls, m) == ProcessFrom(ls, m, <<>>, 0)

\* write_text("".join(out_lines)) followed by read_text().splitlines(keepends=True)
WriteThenRead(ls) == SplitLines(Concat(ls))

(***************************************************************************)
(* main: paths, arguments and the choices main makes                       *)
(***************************************************************************)
\* a path: directory, stem, suffix, and whether it carries the ".<stamp>.bak" suffix
PathOf(d, stem, ext) == [dir |-> d, stem |-> stem, ext |-> ext, bak |-> FALSE]

\* an option that was not given
NoPath == [dir |-> "", stem |-> "", ext |-> "", bak |-> FALSE]

\* fp.with_suffix(fp.suffix + f".{stamp}.bak")
BackupPath(fp) == [fp EXCEPT !.bak = TRUE]

\* base_out_dir / fp.name
OutPath(d, fp) == [fp EXCEPT !.dir = d]

\* the test of the directory scan
Candidate(p) == ~p.bak /\ p.ext \in {".dict.yaml", ".yaml", ".txt"}

\* the paths of the model in sorted() order
SortedPaths ==
    << PathOf("src", "w", ".dict.yaml"), PathOf("src", "x", ".dict.yaml"),
       PathOf("src", "y", ".txt"), PathOf("src", "z", ".md") >>

\* sorted(target_dir.iterdir()) filtered by the candidate test
Collect(files, d) ==
    SelectSeq(SortedPaths, LAMBDA p : p \in DOMAIN files /\ p.dir = d /\ Candidate(p))

\* files_to_process as the two modes build it
FilesOf(a, files) == IF a.file # NoPath THEN <<a.file>> ELSE Collect(files, a.dir)

\* base_out_dir
BaseOutDir(a) ==
    IF a.out_dir # "" THEN a.out_dir
    ELSE IF a.file # NoPath THEN "auxified/moqi" ELSE "auxified"

\* mkdir(parents=True, exist_ok=True)
MkDirs(ds, d) == IF d = "auxified/moqi" THEN ds \cup {"auxified", d} ELSE ds \cup {d}

\* the branch order with --inplace tested before --dry-run
EmitBranchInplaceFirst(a) ==
    IF a.inplace THEN (IF a.backup THEN "backup" ELSE "inplace")
    ELSE IF a.dry_run THEN "diff"
    ELSE "out"

\* which branch a file with changes takes
EmitBranch(a) ==
    IF a.dry_run THEN "diff"
    ELSE IF a.inplace THEN (IF a.backup THEN "backup" ELSE "inplace")
    ELSE "out"

(***************************************************************************)
(* Bounds and input sets                                                   *)
(***************************************************************************)
MaxRows == 3
MaxText == 4

\* rows of a moqi table as the file iterator yields them
LoadRows ==
    { <<NL>>,
      <<HASH, "a", TAB, "b", NL>>,
      <<"a", NL>>,
      <<"a", TAB, NL>>,
      <<TAB, "a", NL>>,
      <<"a", TAB, "a", NL>>,
      <<"a", TAB, "b", NL>>,
      <<"b", TAB, "a", NL>>,
      <<"a", TAB, "b", TAB, "a">> }

LoadTables == UNION { [1..n -> LoadRows] : n \in 0..MaxRows }

\* tables whose mappings process_chars is run with
MergeTables ==
    { <<>>,
      << <<"a", TAB, "a", NL>> >>,
      << <<SP, TAB, "a", NL>> >>,
      << <<"a", TAB, SEMI, NL>> >>,
      << <<"a", TAB, FF, "a", NL>> >>,
      << <<HASH, "a", TAB, "a", NL>>, <<"a", TAB, NL>>, <<"a", TAB, DASH, TAB, "a", NL>>,
         <<"a", TAB, "a", NL>>, <<SP, TAB, SP>> >> }

LoadedMaps == { load_moqi(t) : t \in MergeTables }

\* a dict no table yields: load_moqi never inserts a key that starts with "#"
DirectMaps == { Insert(EmptyMap, <<HASH>>, <<"a">>) }

TextAlphabet == {TAB, NL, SEMI, HASH, SP, DASH, "a"}

Texts == UNION { [1..n -> TextAlphabet] : n \in 0..MaxText }

NoRun == [mode |-> "none", lines |-> <<>>, changed |-> 0]

(***************************************************************************)
(* SpecLoad: load_moqi, one row per step                                   *)
(***************************************************************************)
MergeIdle ==
    /\ moqi_map = EmptyMap
    /\ lines = <<>>
    /\ out_lines = <<>>
    /\ changed = 0
    /\ line_idx = 1
    /\ pc = "idle"
    /\ again = NoRun

NoArgs == [moqi |-> "", file |-> NoPath, dir |-> "", out_dir |-> "",
           inplace |-> FALSE, backup |-> FALSE, dry_run |-> FALSE]

NoResult == [out_lines |-> <<>>, changed |-> 0]

MainIdle ==
    /\ args = NoArgs
    /\ fs = EmptyMap
    /\ dirs = {}
    /\ files_to_process = <<>>
    /\ fp_idx = 1
    /\ orig = <<>>
    /\ result = NoResult
    /\ total_changed = 0
    /\ main_pc = "idle"
    /\ rc = "running"

LoadIdle ==
    /\ table = <<>>
    /\ ln_idx = 1
    /\ mapping = EmptyMap
    /\ load_pc = "idle"

InitLoad ==
    /\ table \in LoadTables
    /\ ln_idx = 1
    /\ mapping = EmptyMap
    /\ load_pc = "loop"
    /\ MergeIdle
    /\ MainIdle

LoadStep ==
    /\ load_pc = "loop"
    /\ ln_idx <= Len(table)
    /\ mapping' = LoadRow(mapping, table[ln_idx])
    /\ ln_idx' = ln_idx + 1
    /\ UNCHANGED <<table, load_pc>>
    /\ UNCHANGED mergeVars
    /\ UNCHANGED mainVars

LoadReturn ==
    /\ load_pc = "loop"
    /\ ln_idx > Len(table)
    /\ load_pc' = "done"
    /\ UNCHANGED <<table, ln_idx, mapping>>
    /\ UNCHANGED mergeVars
    /\ UNCHANGED mainVars

NextLoad == LoadStep \/ LoadReturn

SpecLoad == InitLoad /\ [][NextLoad]_vars

(***************************************************************************)
(* SpecMerge: process_chars, one line per step, then a second run          *)
(***************************************************************************)
InitMerge ==
    /\ moqi_map \in LoadedMaps \cup DirectMaps
    /\ lines \in { SplitLines(t) : t \in Texts }
    /\ out_lines = <<>>
    /\ changed = 0
    /\ line_idx = 1
    /\ pc = "loop"
    /\ again = NoRun
    /\ LoadIdle
    /\ MainIdle

MergeStep ==
    /\ pc = "loop"
    /\ line_idx <= Len(lines)
    /\ out_lines' = AppendOut(out_lines, ProcessLine(lines[line_idx], moqi_map))
    /\ changed' = changed + ProcessLine(lines[line_idx], moqi_map).inc
    /\ line_idx' = line_idx + 1
    /\ UNCHANGED <<moqi_map, lines, pc, again>>
    /\ UNCHANGED loadVars
    /\ UNCHANGED mainVars

MergeReturn ==
    /\ pc = "loop"
    /\ line_idx > Len(lines)
    /\ pc' = "done"
    /\ UNCHANGED <<moqi_map, lines, out_lines, changed, line_idx, again>>
    /\ UNCHANGED loadVars
    /\ UNCHANGED mainVars

\* the loop run again over the list the first run returned
RerunInMemory ==
    /\ pc = "done"
    /\ again' = [mode |-> "memory",
                 lines |-> ProcessLines(out_lines, moqi_map).lines,
                 changed |-> ProcessLines(out_lines, moqi_map).changed]
    /\ pc' = "again"
    /\ UNCHANGED <<moqi_map, lines, out_lines, changed, line_idx>>
    /\ UNCHANGED loadVars
    /\ UNCHANGED mainVars

\* the output written to a file and process_chars run again on that file
RerunFromFile ==
    /\ pc = "done"
    /\ again' = [mode |-> "file",
                 lines |-> ProcessLines(WriteThenRead(out_lines), moqi_map).lines,
                 changed |-> ProcessLines(WriteThenRead(out_lines), moqi_map).changed]
    /\ pc' = "again"
    /\ UNCHANGED <<moqi_map, lines, out_lines, changed, line_idx>>
    /\ UNCHANGED loadVars
    /\ UNCHANGED mainVars

NextMerge == MergeStep \/ MergeReturn \/ RerunInMemory \/ RerunFromFile

SpecMerge == InitMerge /\ [][NextMerge]_vars

(***************************************************************************)
(* SpecMain: main over a small file system                                 *)
(***************************************************************************)
\* the moqi table main loads
MainTable == << <<"a", TAB, "a", NL>> >>

\* contents of target files: one that gains a code, one that does not
FileTexts == { <<"a", TAB, TAB, NL>>, <<HASH, "a", NL>> }

ArgSpace ==
    [moqi : {"present", "missing"},
     file : {NoPath, PathOf("src", "x", ".dict.yaml"), PathOf("src", "w", ".dict.yaml")},
     dir : {"", "src", "nodir"},
     out_dir : {"", "src", "out"},
     inplace : BOOLEAN, backup : BOOLEAN, dry_run : BOOLEAN]

\* the files a run may find in the target directory
InitialFiles ==
    UNION { [D -> FileTexts] : D \in SUBSET { PathOf("src", "x", ".dict.yaml"),
                                              PathOf("src", "y", ".txt"),
                                              PathOf("src", "z", ".md") } }

InitMain ==
    /\ args \in ArgSpace
    /\ fs \in InitialFiles
    /\ dirs \in {{"src"}, {"src", "out"}}
    /\ files_to_process = <<>>
    /\ fp_idx = 1
    /\ orig = <<>>
    /\ result = NoResult
    /\ total_changed = 0
    /\ main_pc = "start"
    /\ rc = "running"
    /\ MergeIdle
    /\ LoadIdle

mergeRest == <<lines, out_lines, changed, line_idx, pc, again>>

Return(code) ==
    /\ rc' = code
    /\ main_pc' = "returned"
    /\ UNCHANGED <<args, fs, dirs, files_to_process, fp_idx, orig, result, total_changed>>
    /\ UNCHANGED <<loadVars, mergeRest>>

Raise(exc) ==
    /\ rc' = exc
    /\ main_pc' = "raised"
    /\ UNCHANGED <<args, fs, dirs, files_to_process, fp_idx, orig, result, total_changed>>
    /\ UNCHANGED <<loadVars, mergeVars>>

\* `continue`, or the end of the loop body
NextFile ==
    /\ fp_idx' = fp_idx + 1
    /\ main_pc' = "read"

fp == files_to_process[fp_idx]

MoqiMissing ==
    /\ main_pc = "start"
    /\ args.moqi = "missing"
    /\ UNCHANGED moqi_map
    /\ Return("2")

Loaded ==
    /\ main_pc = "start"
    /\ args.moqi = "present"
    /\ moqi_map' = load_moqi(MainTable)

BothGiven ==
    /\ Loaded
    /\ args.file # NoPath /\ args.dir # ""
    /\ Return("2")

FileMissing ==
    /\ Loaded
    /\ args.file # NoPath /\ args.dir = ""
    /\ args.file \notin DOMAIN fs
    /\ Return("2")

NoTarget ==
    /\ Loaded
    /\ args.file = NoPath /\ args.dir = ""
    /\ Return("2")

DirMissing ==
    /\ Loaded
    /\ args.file = NoPath /\ args.dir # ""
    /\ args.dir \notin dirs
    /\ Return("2")

NoFiles ==
    /\ Loaded
    /\ args.file = NoPath /\ args.dir \in dirs
    /\ FilesOf(args, fs) = <<>>
    /\ Return("0")

Begin ==
    /\ Loaded
    /\ \/ args.file # NoPath /\ args.dir = "" /\ args.file \in DOMAIN fs
       \/ args.file = NoPath /\ args.dir \in dirs
    /\ FilesOf(args, fs) # <<>>
    /\ files_to_process' = FilesOf(args, fs)
    /\ dirs' = IF ~args.inplace THEN MkDirs(dirs, BaseOutDir(args)) ELSE dirs
    /\ total_changed' = 0
    /\ fp_idx' = 1
    /\ main_pc' = "read"
    /\ UNCHANGED <<args, fs, orig, result, rc>>
    /\ UNCHANGED <<loadVars, mergeRest>>

\* line 130 succeeds
ReadOrig ==
    /\ main_pc = "read"
    /\ fp_idx <= Len(files_to_process)
    /\ orig' = SplitLines(fs[fp])
    /\ main_pc' = "process"
    /\ UNCHANGED <<args, fs, dirs, files_to_process, fp_idx, result, total_changed, rc>>
    /\ UNCHANGED <<loadVars, mergeVars>>

\* line 130 raises: the except clause skips the file
ReadOrigFails ==
    /\ main_pc = "read"
    /\ fp_idx <= Len(files_to_process)
    /\ NextFile
    /\ UNCHANGED <<args, fs, dirs, files_to_process, orig, result, total_changed, rc>>
    /\ UNCHANGED <<loadVars, mergeVars>>

\* line 134: process_chars reads the file itself, then lines 135-139
Process ==
    /\ main_pc = "process"
    /\ LET r == ProcessLines(SplitLines(fs[fp]), moqi_map)
       IN  /\ result' = [out_lines |-> r.lines, changed |-> r.changed]
           /\ total_changed' = total_changed + r.changed
           /\ IF r.changed = 0
              THEN NextFile
              ELSE main_pc' = "emit" /\ UNCHANGED fp_idx
    /\ UNCHANGED <<args, fs, dirs, files_to_process, orig, rc>>
    /\ UNCHANGED <<loadVars, mergeVars>>

\* line 134: the read of line 45 raises, outside any try
ProcessReadFails ==
    /\ main_pc = "process"
    /\ Raise("OSError:read")

\* lines 141-145
DryRun ==
    /\ main_pc = "emit"
    /\ EmitBranch(args) = "diff"
    /\ NextFile
    /\ UNCHANGED <<args, fs, dirs, files_to_process, orig, result, total_changed, rc>>
    /\ UNCHANGED <<loadVars, mergeVars>>

\* lines 148-152: shutil.copy2 succeeds
Backup ==
    /\ main_pc = "emit"
    /\ EmitBranch(args) = "backup"
    /\ fs' = Insert(fs, BackupPath(fp), fs[fp])
    /\ main_pc' = "write"
    /\ UNCHANGED <<args, dirs, files_to_process, fp_idx, orig, result, total_changed, rc>>
    /\ UNCHANGED <<loadVars, mergeVars>>

\* line 151: shutil.copy2 raises
BackupFails ==
    /\ main_pc = "emit"
    /\ EmitBranch(args) = "backup"
    /\ Raise("OSError:copy")

\* line 153
WriteInplace ==
    /\ \/ main_pc = "emit" /\ EmitBranch(args) = "inplace"
       \/ main_pc = "write"
    /\ fs' = Insert(fs, fp, Concat(result.out_lines))
    /\ NextFile
    /\ UNCHANGED <<args, dirs, files_to_process, orig, result, total_changed, rc>>
    /\ UNCHANGED <<loadVars, mergeVars>>

\* lines 156-157
WriteOut ==
    /\ main_pc = "emit"
    /\ EmitBranch(args) = "out"
    /\ fs' = Insert(fs, OutPath(BaseOutDir(args), fp), Concat(result.out_lines))
    /\ NextFile
    /\ UNCHANGED <<args, dirs, files_to_process, orig, result, total_changed, rc>>
    /\ UNCHANGED <<loadVars, mergeVars>>

\* lines 160-161
Finish ==
    /\ main_pc = "read"
    /\ fp_idx > Len(files_to_process)
    /\ UNCHANGED moqi_map
    /\ Return("0")

NextMain ==
    \/ MoqiMissing \/ BothGiven \/ FileMissing \/ NoTarget \/ DirMissing \/ NoFiles
    \/ Begin \/ ReadOrig \/ ReadOrigFails \/ Process \/ ProcessReadFails
    \/ DryRun \/ Backup \/ BackupFails \/ WriteInplace \/ WriteOut \/ Finish

SpecMain == InitMain /\ [][NextMain]_vars

(***************************************************************************)
(* Properties of load_moqi (SpecLoad)                                      *)
(***************************************************************************)
\* a row written (character, code): at least two tab-separated fields, not a comment
PairRow(ln) == ~RowSkipped(ln)

\* the rows read so far
RowsRead == 1..(ln_idx - 1)

\* C6 as stated: every character of the mapping carries the code of the first
\* (character, code) row of the table for that character, and every later row
\* for it is ignored.
C6_FirstRowWins ==
    \A ch \in DOMAIN mapping :
        \A j \in RowsRead :
            (/\ PairRow(table[j]) /\ RowKey(table[j]) = ch
             /\ \A i \in 1..(j - 1) : ~(PairRow(table[i]) /\ RowKey(table[i]) = ch))
            => mapping[ch] = RowAux(table[j])

\* a row load_moqi can insert: a (character, code) row with both fields non-empty
InsertableRow(ln) == PairRow(ln) /\ RowKey(ln) # <<>> /\ RowAux(ln) # <<>>

\* C6 amended: after any number of rows, the mapping holds exactly the characters
\* of the insertable rows read so far, each with the code of the first insertable
\* row for it; rows with an empty character or an empty code do not count, and
\* no later row overwrites or removes an entry.
C6_FirstInsertableRowWins ==
    /\ DOMAIN mapping = { RowKey(table[j]) : j \in { k \in RowsRead : InsertableRow(table[k]) } }
    /\ \A j \in RowsRead :
           (/\ InsertableRow(table[j])
            /\ \A i \in 1..(j - 1) :
                   ~(InsertableRow(table[i]) /\ RowKey(table[i]) = RowKey(table[j])))
           => mapping[RowKey(table[j])] = RowAux(table[j])

\* two insertable rows for one character with different codes have been read
C6_Witness ==
    /\ load_pc = "done"
    /\ \E i, j \in RowsRead :
           /\ i < j
           /\ InsertableRow(table[i]) /\ InsertableRow(table[j])
           /\ RowKey(table[i]) = RowKey(table[j])
           /\ RowAux(table[i]) # RowAux(table[j])
           /\ mapping[RowKey(table[i])] = RowAux(table[i])

(***************************************************************************)
(* Properties of process_chars (SpecMerge)                                 *)
(***************************************************************************)
Fields(line) == Split(line, TAB)

\* the lines processed so far
Processed == 1..(line_idx - 1)

\* an entry line whose first field has a code and whose second has no ";"
Augmentable(line) ==
    /\ Len(Fields(line)) >= 3
    /\ Fields(line)[1] \in DOMAIN moqi_map
    /\ ~Contains(Fields(line)[2], SEMI)

\* out is line with ";" and the code appended to the second field, nothing else changed
AugmentedFrom(out, line) ==
    /\ Len(Fields(out)) = Len(Fields(line))
    /\ Fields(out)[2] = Fields(line)[2] \o <<SEMI>> \o moqi_map[Fields(line)[1]]
    /\ \A k \in (1..Len(Fields(line))) \ {2} : Fields(out)[k] = Fields(line)[k]

\* C1 as stated: for a mapping load_moqi produced, every line with at least three
\* fields, a mapped first field and no ";" in the second is emitted with ";" and
\* the code appended to the second field and every other field unchanged.
C1_EveryMappedEntryAugmented ==
    moqi_map \in LoadedMaps =>
        \A j \in Processed : Augmentable(lines[j]) => AugmentedFrom(out_lines[j], lines[j])

\* blank after stripping, a comment, or the "---" marker
StructuralLine(line) ==
    \/ \A i \in 1..Len(line) : line[i] \in Whitespace
    \/ (line # <<>> /\ line[1] = HASH)
    \/ \E i \in 1..Len(line) :
          /\ i + 2 <= Len(line)
          /\ SubSeq(line, i, i + 2) = <<DASH, DASH, DASH>>
          /\ \A k \in (1..Len(line)) \ (i..(i + 2)) : line[k] \in Whitespace

\* C1 amended: the same, for lines that are not structural (not blank after
\* stripping, not starting with "#", not "---" after stripping).
C1_NonStructuralEntryAugmented ==
    moqi_map \in LoadedMaps =>
        \A j \in Processed :
            (Augmentable(lines[j]) /\ ~StructuralLine(lines[j]))
            => AugmentedFrom(out_lines[j], lines[j])

\* a rewritten entry that ends with a line terminator
C1_Witness ==
    /\ pc = "done"
    /\ moqi_map \in LoadedMaps
    /\ \E j \in Processed :
           /\ Augmentable(lines[j]) /\ ~StructuralLine(lines[j])
           /\ EndsWith(lines[j], NL)
           /\ out_lines[j] # lines[j]

\* the line the next iteration processes
AtLine == pc = "loop" /\ line_idx <= Len(lines)

PassesThrough ==
    /\ out_lines' = Append(out_lines, lines[line_idx])
    /\ changed' = changed

\* C2: a line whose second field contains ";" is emitted unchanged and is not
\* counted, whether or not its first field has a code.
C2_SemicolonLinesPassThrough ==
    [][(/\ AtLine
        /\ Len(Fields(lines[line_idx])) >= 2
        /\ Contains(Fields(lines[line_idx])[2], SEMI)) => PassesThrough]_vars

\* an entry with a mapped first field and ";" in the second field was processed
C2_Witness ==
    /\ pc = "done"
    /\ \E j \in Processed :
           /\ Len(Fields(lines[j])) >= 3
           /\ Fields(lines[j])[1] \in DOMAIN moqi_map
           /\ Contains(Fields(lines[j])[2], SEMI)
           /\ ~StructuralLine(lines[j])
           /\ out_lines[j] = lines[j]
           /\ changed = 0

\* C3: a blank line, a "#" line, a "---" line and any line with fewer than three
\* fields is emitted unchanged and is not counted, for any mapping.
C3_NonEntryLinesPassThrough ==
    [][(/\ AtLine
        /\ \/ StructuralLine(lines[line_idx])
           \/ Len(Fields(lines[line_idx])) < 3) => PassesThrough]_vars

\* a structural line with three fields and a mapped first field was processed
C3_Witness ==
    /\ pc = "done"
    /\ \E j \in Processed :
           /\ StructuralLine(lines[j])
           /\ Len(Fields(lines[j])) >= 3
           /\ Fields(lines[j])[1] \in DOMAIN moqi_map
           /\ out_lines[j] = lines[j]
    /\ changed = 0

\* C4 as stated: a second run over the first run's output returns exactly the
\* first run's lines with a changed count of 0, both over the list in memory
\* and over the file the output was written to (where the lines are compared
\* as the text they join to, since re-reading may split it elsewhere).
C4_SecondRunChangesNothing ==
    /\ (pc = "again" /\ again.mode = "memory") =>
           (again.lines = out_lines /\ again.changed = 0)
    /\ (pc = "again" /\ again.mode = "file") =>
           (Concat(again.lines) = Concat(out_lines) /\ again.changed = 0)

\* the part of C4 that holds of the code: the second run over the list in memory
C4_InMemoryRunChangesNothing ==
    (pc = "again" /\ again.mode = "memory") => (again.lines = out_lines /\ again.changed = 0)

\* C5: after every iteration out_lines has one line per line read so far, the
\* j-th made from the j-th input line alone; at the end the counts are equal.
C5_LineCountAndOrder ==
    /\ Len(out_lines) = line_idx - 1
    /\ Len(out_lines) <= Len(lines)
    /\ \A j \in 1..Len(out_lines) :
           out_lines[j] = ProcessLine(lines[j], moqi_map).line
    /\ pc \in {"done", "again"} => Len(out_lines) = Len(lines)

\* a finished run over several lines, one rewritten and one not
C5_Witness ==
    /\ pc = "done"
    /\ Len(lines) >= 2
    /\ Len(out_lines) = Len(lines)
    /\ \E j \in 1..Len(lines) : out_lines[j] # lines[j]
    /\ \E j \in 1..Len(lines) : out_lines[j] = lines[j]

\* C10: changed is the number of positions where the output line differs from
\* the input line, so it is 0 exactly when the output equals the input.
C10_ChangedCountsDifferences ==
    /\ changed = Cardinality({ j \in Processed : out_lines[j] # lines[j] })
    /\ pc = "done" => ((changed = 0) <=> (out_lines = lines))

\* a finished run with a counted line and an uncounted line
C10_Witness ==
    /\ pc = "done"
    /\ changed = 1
    /\ \E j \in Processed : out_lines[j] # lines[j]
    /\ \E j \in Processed : out_lines[j] = lines[j]

(***************************************************************************)
(* Properties of main (SpecMain)                                           *)
(***************************************************************************)
\* C7 as stated: a failed read of a target file never aborts the run; the file
\* is skipped and main goes on and returns normally.
C7_ReadFailureNeverAborts ==
    ~(main_pc = "raised" /\ rc = "OSError:read")

\* C8: with --dry-run no step of main changes any file, whatever --inplace,
\* --backup and --out-dir are.
C8_DryRunWritesNothing ==
    [][args.dry_run => fs' = fs]_vars

\* a dry run with --inplace and --backup returned after a file with changes
C8_Witness ==
    /\ args.dry_run /\ args.inplace /\ args.backup
    /\ main_pc = "returned" /\ rc = "0"
    /\ total_changed > 0

Targets == { files_to_process[i] : i \in 1..Len(files_to_process) }

Overwritten(p) == p \in DOMAIN fs /\ fs'[p] # fs[p]

\* C9 as stated: with --inplace and --backup every overwrite of a target follows
\* a backup holding the content being replaced; a failed backup leaves the file
\* as it was; without --inplace no backup is made and no target is written.
C9_BackupPrecedesOverwrite ==
    [][/\ (args.inplace /\ args.backup /\ ~args.dry_run) =>
            \A p \in Targets :
                Overwritten(p) => (BackupPath(p) \in DOMAIN fs /\ fs[BackupPath(p)] = fs[p])
       /\ rc' = "OSError:copy" => fs' = fs
       /\ ~args.inplace =>
            /\ \A p \in DOMAIN fs' : ~p.bak
            /\ \A p \in Targets : ~Overwritten(p)]_vars

====
